---- MODULE Spec2Model ----
(***************************************************************************)
(* Model of the transaction storage layer of the finance tracker:          *)
(*   app/models.py      Transaction, TransactionType, to_dict / from_dict  *)
(*   app/db/jsonfile.py JsonFileDatabase (connect, disconnect, read,       *)
(*                      write, save, clear, get/add/delete/change)         *)
(*   app/utils.py       calculate_expenses                                 *)
(*   app/main.py        get_db                                             *)
(* One engine object and one external resource (the JSON file).  The file  *)
(* can also be rewritten from outside the engine, as the test-suite does.  *)
(* Spec drives the engine call by call; SpecGetDb runs get_db sessions;    *)
(* SpecFrontEnd runs the add and amount-edit views; SpecWindow follows one  *)
(* engine through connect and disconnect; SpecSessions runs two engines on  *)
(* one file;                                                               *)
(* SpecRoundTrip, SpecBalance and SpecClone apply the pure functions to    *)
(* inputs drawn from bounded sets.                                         *)
(***************************************************************************)
EXTENDS Integers, Sequences, FiniteSets, TLC

VARIABLES
    filename,   \* JsonFileDatabase.filename: Unset (no attribute yet), NoneStr or a path
    ws,         \* JsonFileDatabase._transactions: [st, items], st in absent / none / list
    file,       \* the external resource: [kind, items]
    last,       \* the last call made on the engine, with its arguments and outcome
    pc,         \* where the caller of the engine or of a function stands
    io          \* the arguments and results the caller holds

vars == <<filename, ws, file, last, pc, io>>

----------------------------------------------------------------------------
(* Bounds *)

\* longest working set the engine is driven to by add_transaction
MaxLen == 3
\* longest collection handed to write
MaxWrite == 2
\* longest sequence handed to calculate_expenses
MaxBalance == 2
\* most records the front end, or a session of two, is driven to hold
MaxRecords == 2
\* last instant the front end's clock is driven to
MaxClock == 4

----------------------------------------------------------------------------
(* app/models.py *)

INCOME == 1
EXPENSE == 2
UNDEFINED == 3

TransactionType == {INCOME, EXPENSE, UNDEFINED}

\* Python's None where a string is expected (description, filename)
NoneStr == "<None>"
\* an attribute that was never assigned (JsonFileDatabase has no __init__)
Unset == "<unset>"
\* Transaction.date = None: a record to_dict cannot serialize
NoDate == 0

Transaction(id, date, type, amount, description) ==
    [id |-> id, date |-> date, type |-> type, amount |-> amount,
     description |-> description]

\* TransactionType.<member>.name
TypeName(t) ==
    CASE t = INCOME -> "INCOME"
      [] t = EXPENSE -> "EXPENSE"
      [] OTHER -> "UNDEFINED"

TypeNames == {TypeName(t) : t \in TransactionType}

\* TransactionType[name] for a name of the enumeration
TypeByName(name) == CHOOSE t \in TransactionType : TypeName(t) = name

\* str(uuid) and datetime.isoformat(): the text form of an id / a date
UUIDStr(id) == [wellformed |-> TRUE, hex |-> id]
IsoFormat(date) == [wellformed |-> TRUE, ts |-> date]

Keys == {"id", "date", "type", "amount", "description"}

\* date.isoformat() raises AttributeError when date is None
Serializable(t) == t.date # NoDate

\* to_dict writing str(self.type) where it should write self.type.name
ToDict_TypeRepr(t) ==
    [obj |-> TRUE, keys |-> Keys, id |-> UUIDStr(t.id), date |-> IsoFormat(t.date),
     type |-> "TransactionType." \o TypeName(t.type), amount |-> t.amount,
     description |-> t.description]

\* Transaction.to_dict
ToDict(t) ==
    [obj |-> TRUE, keys |-> Keys, id |-> UUIDStr(t.id), date |-> IsoFormat(t.date),
     type |-> TypeName(t.type), amount |-> t.amount, description |-> t.description]

NoTransaction == Transaction(0, NoDate, UNDEFINED, 0, NoneStr)

\* from_dict reading a description of None as the empty string
FromDict_EmptyDescription(data) ==
    IF ~data.obj THEN [err |-> "TypeError", val |-> NoTransaction]
    ELSE IF "id" \notin data.keys THEN [err |-> "KeyError", val |-> NoTransaction]
    ELSE IF ~data.id.wellformed THEN [err |-> "ValueError", val |-> NoTransaction]
    ELSE IF "date" \notin data.keys THEN [err |-> "KeyError", val |-> NoTransaction]
    ELSE IF ~data.date.wellformed THEN [err |-> "ValueError", val |-> NoTransaction]
    ELSE IF "type" \notin data.keys THEN [err |-> "KeyError", val |-> NoTransaction]
    ELSE IF data.type \notin TypeNames THEN [err |-> "KeyError", val |-> NoTransaction]
    ELSE IF "amount" \notin data.keys THEN [err |-> "KeyError", val |-> NoTransaction]
    ELSE IF "description" \notin data.keys THEN [err |-> "KeyError", val |-> NoTransaction]
    ELSE [err |-> "",
          val |-> Transaction(data.id.hex, data.date.ts, TypeByName(data.type),
                              data.amount,
                              IF data.description = NoneStr THEN ""
                              ELSE data.description)]

\* Transaction.from_dict: the fields are read in the order id, date, type,
\* amount, description; the first failure is the exception raised
FromDict(data) ==
    IF ~data.obj THEN [err |-> "TypeError", val |-> NoTransaction]
    ELSE IF "id" \notin data.keys THEN [err |-> "KeyError", val |-> NoTransaction]
    ELSE IF ~data.id.wellformed THEN [err |-> "ValueError", val |-> NoTransaction]
    ELSE IF "date" \notin data.keys THEN [err |-> "KeyError", val |-> NoTransaction]
    ELSE IF ~data.date.wellformed THEN [err |-> "ValueError", val |-> NoTransaction]
    ELSE IF "type" \notin data.keys THEN [err |-> "KeyError", val |-> NoTransaction]
    ELSE IF data.type \notin TypeNames THEN [err |-> "KeyError", val |-> NoTransaction]
    ELSE IF "amount" \notin data.keys THEN [err |-> "KeyError", val |-> NoTransaction]
    ELSE IF "description" \notin data.keys THEN [err |-> "KeyError", val |-> NoTransaction]
    ELSE [err |-> "",
          val |-> Transaction(data.id.hex, data.date.ts, TypeByName(data.type),
                              data.amount, data.description)]

----------------------------------------------------------------------------
(* Inputs *)

\* the records handed to the engine: two with different ids, and a third
\* that shares the id of the first and cannot be serialized (its date is None)
TxA == Transaction(1, 1, INCOME, 100, NoneStr)
TxB == Transaction(2, 2, EXPENSE, 777, "rent")
TxBad == Transaction(1, NoDate, EXPENSE, 1500, NoneStr)

Pool == {TxA, TxB, TxBad}
Ids == {1, 2}

SeqsUpTo(S, n) == UNION {[1..k -> S] : k \in 0..n}

\* the collections handed to write: every sequence of serializable records,
\* and two that write cannot serialize
Collections ==
    SeqsUpTo({t \in Pool : Serializable(t)}, MaxWrite) \cup {<<TxBad>>, <<TxA, TxBad>>}

----------------------------------------------------------------------------
(* The external resource *)

Doc(kind, items) == [kind |-> kind, items |-> items]

Missing == Doc("missing", <<>>)          \* no such file
ZeroLength == Doc("zero-length", <<>>)   \* the file exists and is empty
ArrayDoc(items) == Doc("array", items)   \* a JSON array

\* json.dump([t.to_dict() for t in transactions], file)
Dump(transactions) == ArrayDoc([i \in 1..Len(transactions) |-> ToDict(transactions[i])])

\* documents put in place from outside the engine: a record without its
\* "id" key, and a record whose "id" is not the text of a UUID
NoIdKey == [ToDict(TxA) EXCEPT !.keys = Keys \ {"id"}]
BadUUID == [ToDict(TxA) EXCEPT !.id = [wellformed |-> FALSE, hex |-> 0]]

ExternalDocs ==
    { Missing, ZeroLength,
      Doc("invalid", <<>>),              \* not JSON
      Doc("null", <<>>),                 \* the JSON value null
      Doc("object", <<>>),               \* the JSON value {}
      ArrayDoc(<<ToDict(TxB), NoIdKey>>),
      ArrayDoc(<<BadUUID>>) }

----------------------------------------------------------------------------
(* app/db/jsonfile.py *)

WS(st, items) == [st |-> st, items |-> items]
Absent == WS("absent", <<>>)
NoneWS == WS("none", <<>>)
List(items) == WS("list", items)

\* the outcome of a call: the engine afterwards, the resource afterwards,
\* the exception raised ("" for none) with its message, the value returned
Outcome(fn, w, f, err, msg, ret) ==
    [filename |-> fn, ws |-> w, file |-> f, err |-> err, msg |-> msg, ret |-> ret]

\* json.JSONDecodeError is a subclass of ValueError
IsValueError(err) == err \in {"ValueError", "JSONDecodeError"}

\* the first element of a list comprehension over from_dict that raises
FirstBad(items) ==
    LET bad == {i \in 1..Len(items) : FromDict(items[i]).err # ""}
    IN  IF bad = {} THEN 0 ELSE CHOOSE i \in bad : \A j \in bad : i <= j

\* read answering from the working set once one is loaded
Read_WorkingSet(fn, w, f) ==
    IF fn = Unset THEN Outcome(fn, w, f, "AttributeError", "filename", <<>>)
    ELSE IF fn = NoneStr THEN Outcome(fn, w, f, "TypeError", "open", <<>>)
    ELSE IF w.st = "list" THEN Outcome(fn, w, f, "", "", w.items)
    ELSE IF f.kind = "missing" THEN Outcome(fn, w, f, "FileNotFoundError", "open", <<>>)
    ELSE IF f.kind \in {"zero-length", "invalid"}
         THEN Outcome(fn, w, f, "JSONDecodeError", "json.load", <<>>)
    ELSE IF f.kind = "null" THEN Outcome(fn, w, f, "TypeError", "not iterable", <<>>)
    ELSE IF FirstBad(f.items) # 0
         THEN Outcome(fn, w, f, FromDict(f.items[FirstBad(f.items)]).err, "from_dict", <<>>)
    ELSE Outcome(fn, w, f, "", "",
                 [i \in 1..Len(f.items) |-> FromDict(f.items[i]).val])

\* JsonFileDatabase.read.  Iterating the JSON value {} yields no element, so
\* the comprehension over it is the empty list
Read(fn, w, f) ==
    IF fn = Unset THEN Outcome(fn, w, f, "AttributeError", "filename", <<>>)
    ELSE IF fn = NoneStr THEN Outcome(fn, w, f, "TypeError", "open", <<>>)
    ELSE IF f.kind = "missing" THEN Outcome(fn, w, f, "FileNotFoundError", "open", <<>>)
    ELSE IF f.kind \in {"zero-length", "invalid"}
         THEN Outcome(fn, w, f, "JSONDecodeError", "json.load", <<>>)
    ELSE IF f.kind = "null" THEN Outcome(fn, w, f, "TypeError", "not iterable", <<>>)
    ELSE IF FirstBad(f.items) # 0
         THEN Outcome(fn, w, f, FromDict(f.items[FirstBad(f.items)]).err, "from_dict", <<>>)
    ELSE Outcome(fn, w, f, "", "",
                 [i \in 1..Len(f.items) |-> FromDict(f.items[i]).val])

\* write that ignores read_again and never reloads the working set
Write_NoRefresh(fn, w, f, transactions, read_again) ==
    IF fn = Unset THEN Outcome(fn, w, f, "AttributeError", "filename", <<>>)
    ELSE IF fn = NoneStr THEN Outcome(fn, w, f, "TypeError", "open", <<>>)
    ELSE IF transactions.st # "list"
         THEN Outcome(fn, w, ZeroLength, "TypeError", "not iterable", <<>>)
    ELSE IF \E i \in 1..Len(transactions.items) : ~Serializable(transactions.items[i])
         THEN Outcome(fn, w, ZeroLength, "AttributeError", "isoformat", <<>>)
    ELSE Outcome(fn, w, Dump(transactions.items), "", "", <<>>)

\* write that ignores read_again and always reloads the working set
Write_AlwaysRefresh(fn, w, f, transactions, read_again) ==
    IF fn = Unset THEN Outcome(fn, w, f, "AttributeError", "filename", <<>>)
    ELSE IF fn = NoneStr THEN Outcome(fn, w, f, "TypeError", "open", <<>>)
    ELSE IF transactions.st # "list"
         THEN Outcome(fn, w, ZeroLength, "TypeError", "not iterable", <<>>)
    ELSE IF \E i \in 1..Len(transactions.items) : ~Serializable(transactions.items[i])
         THEN Outcome(fn, w, ZeroLength, "AttributeError", "isoformat", <<>>)
    ELSE LET r == Read(fn, w, Dump(transactions.items))
         IN  IF r.err # "" THEN r
             ELSE Outcome(fn, List(r.ret), r.file, "", "", <<>>)

\* JsonFileDatabase.write; `transactions` is a working-set value, so that
\* save can pass on a _transactions that is None.  open(filename, "w")
\* truncates the file before anything is serialized
Write(fn, w, f, transactions, read_again) ==
    IF fn = Unset THEN Outcome(fn, w, f, "AttributeError", "filename", <<>>)
    ELSE IF fn = NoneStr THEN Outcome(fn, w, f, "TypeError", "open", <<>>)
    ELSE IF transactions.st # "list"
         THEN Outcome(fn, w, ZeroLength, "TypeError", "not iterable", <<>>)
    ELSE IF \E i \in 1..Len(transactions.items) : ~Serializable(transactions.items[i])
         THEN Outcome(fn, w, ZeroLength, "AttributeError", "isoformat", <<>>)
    ELSE IF read_again
         THEN LET r == Read(fn, w, Dump(transactions.items))
              IN  IF r.err # "" THEN r
                  ELSE Outcome(fn, List(r.ret), r.file, "", "", <<>>)
    ELSE Outcome(fn, w, Dump(transactions.items), "", "", <<>>)

\* save keeping the records of the file that the working set does not hold
Save_MergesFile(fn, w, f) ==
    IF w.st = "absent" THEN Outcome(fn, w, f, "AttributeError", "_transactions", <<>>)
    ELSE LET r == Read(fn, w, f)
             kept == IF r.err # "" \/ w.st # "list" THEN <<>>
                     ELSE SelectSeq(r.ret,
                                    LAMBDA t : \A i \in 1..Len(w.items) : w.items[i] # t)
         IN  Write(fn, w, f, IF w.st = "list" THEN List(kept \o w.items) ELSE w, TRUE)

\* JsonFileDatabase.save
Save(fn, w, f) ==
    IF w.st = "absent" THEN Outcome(fn, w, f, "AttributeError", "_transactions", <<>>)
    ELSE Write(fn, w, f, w, TRUE)

\* clear that empties the working set and forgets to save
Clear_NoSave(fn, w, f) == Outcome(fn, List(<<>>), f, "", "", <<>>)

\* JsonFileDatabase.clear
Clear(fn, w, f) == Save(fn, List(<<>>), f)

\* connect creating the file when there is none, and loading the empty list
Connect_CreateIfMissing(fn, w, f, target) ==
    IF target \in {NoneStr, ""}
    THEN Outcome(fn, w, f, "AttributeError", "No filename provided", <<>>)
    ELSE LET g == IF f.kind = "missing" THEN ArrayDoc(<<>>) ELSE f
             r == Read(target, w, g)
         IN  IF r.err # "" THEN r
             ELSE Outcome(target, List(r.ret), g, "", "", <<>>)

\* connect recording the target and leaving the loading for later
Connect_Lazy(fn, w, f, target) ==
    IF target \in {NoneStr, ""}
    THEN Outcome(fn, w, f, "AttributeError", "No filename provided", <<>>)
    ELSE LET r == Read(target, w, f)
         IN  IF r.err # "" THEN r
             ELSE Outcome(target, List(<<>>), f, "", "", <<>>)

\* JsonFileDatabase.connect; `target` is kwargs.get("filename")
Connect(fn, w, f, target) ==
    IF target \in {NoneStr, ""}
    THEN Outcome(fn, w, f, "AttributeError", "No filename provided", <<>>)
    ELSE LET r == Read(target, w, f)
         IN  IF r.err # "" THEN r
             ELSE Outcome(target, List(r.ret), f, "", "", <<>>)

\* disconnect flushing the working set to the file before letting go of it
Disconnect_Saves(fn, w, f) ==
    Outcome(NoneStr, NoneWS, Save(fn, w, f).file, "", "", <<>>)

\* JsonFileDatabase.disconnect
Disconnect(fn, w, f) == Outcome(NoneStr, NoneWS, f, "", "", <<>>)

\* JsonFileDatabase.get_transactions: self._transactions or []
GetTransactions(fn, w, f) ==
    IF w.st = "absent" THEN Outcome(fn, w, f, "AttributeError", "_transactions", <<>>)
    ELSE Outcome(fn, w, f, "", "", w.items)

\* get_transaction without the check for several matches: the first one wins
GetTransaction_FirstMatch(fn, w, f, transaction_id) ==
    LET all == IF w.st = "absent"
               THEN Outcome(fn, w, f, "AttributeError", "_transactions", <<>>)
               ELSE Outcome(fn, w, f, "", "", w.items)
        transactions == SelectSeq(all.ret, LAMBDA t : t.id = transaction_id)
    IN  IF all.err # "" THEN all
        ELSE IF transactions = <<>>
             THEN Outcome(fn, w, f, "ValueError", "not found", <<>>)
        ELSE Outcome(fn, w, f, "", "", <<transactions[1]>>)

\* JsonFileDatabase.get_transaction
GetTransaction(fn, w, f, transaction_id) ==
    LET all == GetTransactions(fn, w, f)
        transactions == SelectSeq(all.ret, LAMBDA t : t.id = transaction_id)
    IN  IF all.err # "" THEN all
        ELSE IF transactions = <<>>
             THEN Outcome(fn, w, f, "ValueError", "not found", <<>>)
        ELSE IF Len(transactions) > 1
             THEN Outcome(fn, w, f, "ValueError", "Multiple transactions found", <<>>)
        ELSE Outcome(fn, w, f, "", "", <<transactions[1]>>)

\* add_transaction inserting at the front: insert(0, transaction)
AddTransaction_Front(fn, w, f, transaction) ==
    IF w.st = "absent" THEN Outcome(fn, w, f, "AttributeError", "_transactions", <<>>)
    ELSE IF w.st = "none" THEN Outcome(fn, w, f, "AttributeError", "append", <<>>)
    ELSE Outcome(fn, List(<<transaction>> \o w.items), f, "", "", <<>>)

\* JsonFileDatabase.add_transaction: self._transactions.append(transaction)
AddTransaction(fn, w, f, transaction) ==
    IF w.st = "absent" THEN Outcome(fn, w, f, "AttributeError", "_transactions", <<>>)
    ELSE IF w.st = "none" THEN Outcome(fn, w, f, "AttributeError", "append", <<>>)
    ELSE Outcome(fn, List(Append(w.items, transaction)), f, "", "", <<>>)

\* pop() in place of remove(x): drops the last element, whatever it is
Remove_Pop(items, x) ==
    IF items = <<>> THEN items ELSE SubSeq(items, 1, Len(items) - 1)

\* list.remove(x): drops the first element equal to x
Remove(items, x) ==
    LET hits == {i \in 1..Len(items) : items[i] = x}
        k == CHOOSE i \in hits : \A j \in hits : i <= j
    IN  IF hits = {} THEN items
        ELSE [i \in 1..(Len(items) - 1) |-> IF i < k THEN items[i] ELSE items[i + 1]]

\* JsonFileDatabase.delete_transaction
DeleteTransaction(fn, w, f, transaction_id) ==
    LET g == GetTransaction(fn, w, f, transaction_id)
    IN  IF g.err # "" THEN g
        ELSE Outcome(fn, List(Remove(w.items, g.ret[1])), f, "", "", g.ret)

\* change_transaction overwriting the record where it stands
ChangeTransaction_InPlace(fn, w, f, transaction_id, new_transaction) ==
    LET g == GetTransaction(fn, w, f, transaction_id)
    IN  IF g.err # "" THEN g
        ELSE Outcome(fn,
                     List([i \in 1..Len(w.items) |->
                              IF w.items[i] = g.ret[1] THEN new_transaction
                              ELSE w.items[i]]),
                     f, "", "", <<>>)

\* change_transaction adding the replacement before it deletes the old record
ChangeTransaction_AddFirst(fn, w, f, transaction_id, new_transaction) ==
    LET a == AddTransaction(fn, w, f, new_transaction)
        d == DeleteTransaction(a.filename, a.ws, a.file, transaction_id)
    IN  IF a.err # "" THEN a
        ELSE d

\* JsonFileDatabase.change_transaction
ChangeTransaction(fn, w, f, transaction_id, new_transaction) ==
    LET d == DeleteTransaction(fn, w, f, transaction_id)
    IN  IF d.err # "" THEN d
        ELSE AddTransaction(d.filename, d.ws, d.file, new_transaction)

----------------------------------------------------------------------------
(* The state machine: one action per call on the engine *)

Path == "db.json"
Targets == {NoneStr, Path}

Call(op, id, flag, input) == [op |-> op, id |-> id, flag |-> flag, input |-> input]

\* the engine and the resource take the outcome of the call; `last` records
\* the call, the exception raised and the value returned
Step(call, out) ==
    /\ filename' = out.filename
    /\ ws' = out.ws
    /\ file' = out.file
    /\ last' = [op |-> call.op, id |-> call.id, flag |-> call.flag,
                input |-> call.input, err |-> out.err, msg |-> out.msg,
                ret |-> out.ret]

\* a call made directly on the engine: the caller holds nothing
Apply(call, out) == Step(call, out) /\ UNCHANGED <<pc, io>>

NoCall == [op |-> "new", id |-> 0, flag |-> FALSE, input |-> <<>>,
           err |-> "", msg |-> "", ret |-> <<>>]

Init ==
    /\ filename = Unset
    /\ ws = Absent
    /\ file = ArrayDoc(<<>>)
    /\ last = NoCall
    /\ pc = "engine"
    /\ io = <<>>

\* db = JsonFileDatabase(): a fresh engine, no attribute set
DoNew ==
    Apply(Call("new", 0, FALSE, <<>>), Outcome(Unset, Absent, file, "", "", <<>>))

DoConnect ==
    \E target \in Targets :
        Apply(Call("connect", 0, target # NoneStr, <<>>),
              Connect(filename, ws, file, target))

DoDisconnect ==
    Apply(Call("disconnect", 0, FALSE, <<>>), Disconnect(filename, ws, file))

DoRead ==
    Apply(Call("read", 0, FALSE, <<>>), Read(filename, ws, file))

\* without a filename open() fails before the argument is looked at, so one
\* argument stands for all of them there
DoWrite ==
    \E transactions \in Collections, read_again \in BOOLEAN :
        /\ filename \in {Unset, NoneStr} => transactions = <<>>
        /\ Apply(Call("write", 0, read_again, transactions),
                 Write(filename, ws, file, List(transactions), read_again))

DoSave ==
    Apply(Call("save", 0, FALSE, <<>>), Save(filename, ws, file))

DoClear ==
    Apply(Call("clear", 0, FALSE, <<>>), Clear(filename, ws, file))

DoGetTransactions ==
    Apply(Call("get_transactions", 0, FALSE, <<>>), GetTransactions(filename, ws, file))

DoGetTransaction ==
    \E id \in Ids :
        Apply(Call("get_transaction", id, FALSE, <<>>),
              GetTransaction(filename, ws, file, id))

DoAddTransaction ==
    \E t \in Pool :
        /\ Len(ws.items) < MaxLen
        /\ Apply(Call("add_transaction", 0, FALSE, <<t>>),
                 AddTransaction(filename, ws, file, t))

DoDeleteTransaction ==
    \E id \in Ids :
        Apply(Call("delete_transaction", id, FALSE, <<>>),
              DeleteTransaction(filename, ws, file, id))

\* when the lookup fails the replacement is never looked at, so one
\* replacement stands for all of them there
DoChangeTransaction ==
    \E id \in Ids, t \in Pool :
        /\ GetTransaction(filename, ws, file, id).err # "" => t = TxA
        /\ Apply(Call("change_transaction", id, FALSE, <<t>>),
                 ChangeTransaction(filename, ws, file, id, t))

\* the resource is replaced or removed from outside the engine
ExternalWrite ==
    \E doc \in ExternalDocs :
        Apply(Call("external", 0, FALSE, <<>>), Outcome(filename, ws, doc, "", "", <<>>))

Next ==
    \/ DoNew
    \/ DoConnect
    \/ DoDisconnect
    \/ DoRead
    \/ DoWrite
    \/ DoSave
    \/ DoClear
    \/ DoGetTransactions
    \/ DoGetTransaction
    \/ DoAddTransaction
    \/ DoDeleteTransaction
    \/ DoChangeTransaction
    \/ ExternalWrite

Spec == Init /\ [][Next]_vars

----------------------------------------------------------------------------
(* Notions the properties are stated in *)

\* an engine after a successful connect: a target and a loaded working set
Connected == filename = Path /\ ws.st = "list"

\* how many records of a collection carry an id
Count(items, id) == Cardinality({i \in 1..Len(items) : items[i].id = id})

\* the collection without the records carrying an id, order kept
Without(items, id) == SelectSeq(items, LAMBDA t : t.id # id)

AllSerializable(items) == \A i \in 1..Len(items) : Serializable(items[i])

\* a document that encodes a collection of transaction records: a JSON
\* array of objects with the five fields, each in its text form
WellFormedRecord(item) ==
    /\ item.obj
    /\ item.keys = Keys
    /\ item.id.wellformed
    /\ item.date.wellformed
    /\ item.type \in TypeNames

ValidEncoding(f) ==
    /\ f.kind = "array"
    /\ \A i \in 1..Len(f.items) : WellFormedRecord(f.items[i])

\* a fresh session on the resource: JsonFileDatabase().connect(filename=Path)
FreshConnect(f) == Connect(Unset, Absent, f, Path)

\* the exceptions json.load and from_dict raise on content they cannot take
\* as a collection of records: ValueError and its subclass for text that is
\* not JSON or not a UUID, KeyError and TypeError for JSON of another shape
MalformedDataError(err) == IsValueError(err) \/ err \in {"KeyError", "TypeError"}

\* the exception get_transaction raises when no record has the id
NotFoundError == GetTransaction(Path, List(<<>>), ArrayDoc(<<>>), 1).err

----------------------------------------------------------------------------
(* Properties *)

\* C1: right after a successful write or save, no two records of the
\* persisted collection share an id.
C1_PersistedIdsUnique ==
    (last.op \in {"write", "save"} /\ last.err = "")
        => \A i, j \in 1..Len(file.items) :
               i # j => file.items[i].id # file.items[j].id

\* C2 as stated: get_transaction returns the record when exactly one record
\* has the id, fails with NotFoundError when none has it, and fails with a
\* ConflictError that is a kind distinct from NotFoundError when several have
\* it; the working set and the resource are unchanged in every case.
C2_ConflictKindDistinct ==
    [][(last'.op = "get_transaction" /\ ws.st # "absent")
        => LET n == Count(ws.items, last'.id)
           IN  /\ n = 1 => /\ last'.err = ""
                           /\ Len(last'.ret) = 1
                           /\ last'.ret[1].id = last'.id
               /\ n = 0 => last'.err = NotFoundError
               /\ n > 1 => last'.err # "" /\ last'.err # NotFoundError
               /\ ws' = ws /\ file' = file /\ filename' = filename]_vars

\* C2 amended: get_transaction returns the record when exactly one record
\* has the id, and raises ValueError both when none has it (message "not
\* found") and when several have it (message "Multiple transactions found"):
\* one exception kind, told apart by the message only; the working set and
\* the resource are unchanged in every case.
C2_GetById ==
    [][(last'.op = "get_transaction" /\ ws.st # "absent")
        => LET n == Count(ws.items, last'.id)
           IN  /\ n = 1 => /\ last'.err = ""
                           /\ Len(last'.ret) = 1
                           /\ last'.ret[1].id = last'.id
                           /\ \E i \in 1..Len(ws.items) : ws.items[i] = last'.ret[1]
               /\ n = 0 => last'.err = "ValueError" /\ last'.msg = "not found"
               /\ n > 1 => /\ last'.err = "ValueError"
                           /\ last'.msg = "Multiple transactions found"
               /\ ws' = ws /\ file' = file /\ filename' = filename]_vars

\* C2 witness: a lookup of an id that two records of the working set carry
\* has failed.
C2_Witness ==
    /\ last.op = "get_transaction"
    /\ ws.st = "list"
    /\ Count(ws.items, last.id) > 1
    /\ last.err = "ValueError"

\* C3: on an engine with a target, write(T, read_again=True) of a collection
\* of serializable records replaces the resource's content by the encoding
\* of T, and afterwards get_transactions() returns exactly T.
C3_WriteRefresh ==
    (last.op = "write" /\ last.flag /\ filename = Path /\ AllSerializable(last.input))
        => /\ last.err = ""
           /\ file = ArrayDoc([i \in 1..Len(last.input) |-> ToDict(last.input[i])])
           /\ GetTransactions(filename, ws, file).err = ""
           /\ GetTransactions(filename, ws, file).ret = last.input

\* C3 witness: a refreshing write of two different records has succeeded.
C3_Witness ==
    /\ last.op = "write" /\ last.flag /\ last.err = ""
    /\ Len(last.input) = 2
    /\ last.input[1] # last.input[2]
    /\ ws = List(last.input)

\* C4: on a connected engine, write(T, read_again=False) of a collection of
\* serializable records leaves the working set as it was, and a read() that
\* follows returns T.
C4_WriteNoRefresh ==
    [][(last'.op = "write" /\ ~last'.flag /\ Connected /\ AllSerializable(last'.input))
        => /\ last'.err = ""
           /\ ws' = ws
           /\ filename' = filename
           /\ Read(filename', ws', file').err = ""
           /\ Read(filename', ws', file').ret = last'.input]_vars

\* C4 witness: after a write without refresh the working set and the
\* resource hold different collections.
C4_Witness ==
    /\ last.op = "write" /\ ~last.flag /\ last.err = ""
    /\ Connected
    /\ ws.items # <<>>
    /\ Read(filename, ws, file).ret = last.input
    /\ ws.items # last.input

\* C5: add_transaction(t) on a connected engine makes t the last element of
\* the working set and changes nothing else; read() returns what it returned
\* before.
C5_AddAppendsOnly ==
    [][(last'.op = "add_transaction" /\ Connected)
        => /\ last'.err = ""
           /\ ws' = List(Append(ws.items, last'.input[1]))
           /\ file' = file
           /\ filename' = filename
           /\ Read(filename', ws', file') = [Read(filename, ws, file) EXCEPT !.ws = ws']]_vars

\* C5 witness: a record was added behind another one and the resource does
\* not hold it.
C5_Witness ==
    /\ last.op = "add_transaction" /\ last.err = ""
    /\ Connected
    /\ Len(ws.items) >= 2
    /\ ws.items[Len(ws.items)] = last.input[1]
    /\ ws.items[1] # last.input[1]
    /\ Read(filename, ws, file).err = ""
    /\ Len(Read(filename, ws, file).ret) < Len(ws.items)

\* C6: save() on a connected engine whose records are serializable makes the
\* resource's content the encoding of the working set and leaves the working
\* set as it was; a fresh session connecting to the resource gets that
\* collection.
C6_Save ==
    [][(last'.op = "save" /\ Connected /\ AllSerializable(ws.items))
        => /\ last'.err = ""
           /\ file' = ArrayDoc([i \in 1..Len(ws.items) |-> ToDict(ws.items[i])])
           /\ ws' = ws
           /\ FreshConnect(file').err = ""
           /\ FreshConnect(file').ws = ws]_vars

\* C6 witness: a working set of two or more records has been saved.
C6_Witness ==
    /\ last.op = "save" /\ last.err = ""
    /\ Connected
    /\ Len(ws.items) >= 2
    /\ ws.items[1] # ws.items[2]
    /\ FreshConnect(file).ws = ws

\* C7: when exactly one record of the working set has id x,
\* delete_transaction(x) returns that record and removes it alone: the other
\* records keep their order, the resource is unchanged, and get_transaction(x)
\* then fails with the not-found ValueError.
C7_DeleteById ==
    [][(last'.op = "delete_transaction" /\ ws.st = "list"
            /\ Count(ws.items, last'.id) = 1)
        => /\ last'.err = ""
           /\ Len(last'.ret) = 1
           /\ last'.ret[1].id = last'.id
           /\ \E i \in 1..Len(ws.items) : ws.items[i] = last'.ret[1]
           /\ ws' = List(Without(ws.items, last'.id))
           /\ Len(ws'.items) = Len(ws.items) - 1
           /\ file' = file
           /\ filename' = filename
           /\ GetTransaction(filename', ws', file', last'.id).err = "ValueError"
           /\ GetTransaction(filename', ws', file', last'.id).msg = "not found"]_vars

\* C7 witness: a record was deleted and two others remain.
C7_Witness ==
    /\ last.op = "delete_transaction" /\ last.err = ""
    /\ ws.st = "list"
    /\ Len(ws.items) = 2
    /\ Count(ws.items, last.id) = 0
    /\ last.ret[1].id = last.id

\* C8: change_transaction(x, r) ends with the working set, the resource and
\* the exception that delete_transaction(x) followed by add_transaction(r)
\* end with; it does not touch the resource, and when r carries id x and x
\* was the id of exactly one record, get_transaction(x) then returns r.
C8_ChangeIsDeleteThenAdd ==
    [][(last'.op = "change_transaction")
        => LET x == last'.id
               r == last'.input[1]
               d == DeleteTransaction(filename, ws, file, x)
               seq == IF d.err # "" THEN d
                      ELSE AddTransaction(d.filename, d.ws, d.file, r)
               unique == ws.st = "list" /\ Count(ws.items, x) = 1
           IN  /\ <<filename', ws', file', last'.err, last'.msg>>
                     = <<seq.filename, seq.ws, seq.file, seq.err, seq.msg>>
               /\ file' = file
               /\ unique
                    => /\ last'.err = ""
                       /\ ws' = List(Append(Without(ws.items, x), r))
                       /\ r.id = x
                            => GetTransaction(filename', ws', file', x).ret = <<r>>]_vars

\* C8 witness: a record standing before another one was replaced by a
\* different record with the same id, which now stands last.
C8_Witness ==
    /\ last.op = "change_transaction" /\ last.err = ""
    /\ ws.st = "list"
    /\ Len(ws.items) >= 2
    /\ last.input[1].id = last.id
    /\ ws.items[Len(ws.items)] = last.input[1]
    /\ Count(ws.items, last.id) = 1
    /\ Read(filename, ws, file).err = ""
    /\ Read(filename, ws, file).ret # ws.items

\* C9: clear() on an engine with a target empties the working set and the
\* resource at once: get_transactions() and read() return the empty
\* collection, and a fresh session connecting to the resource succeeds with
\* an empty working set.
C9_Clear ==
    (last.op = "clear" /\ filename = Path)
        => /\ last.err = ""
           /\ ws = List(<<>>)
           /\ file = ArrayDoc(<<>>)
           /\ GetTransactions(filename, ws, file).ret = <<>>
           /\ Read(filename, ws, file).err = ""
           /\ Read(filename, ws, file).ret = <<>>
           /\ FreshConnect(file).err = ""
           /\ FreshConnect(file).ws = List(<<>>)

\* C9 witness: clear() has succeeded on a connected engine.
C9_Witness ==
    /\ last.op = "clear" /\ last.err = ""
    /\ Connected
    /\ file = ArrayDoc(<<>>)

\* C10: connect or read on an existing resource whose content is not a valid
\* encoding of a collection of transaction records fails with the
\* malformed-data error, so that no collection is returned or installed.
C10_MalformedFails ==
    (/\ last.op \in {"connect", "read"}
     /\ filename = Path
     /\ last.op = "connect" => last.flag
     /\ file.kind # "missing"
     /\ ~ValidEncoding(file))
        => MalformedDataError(last.err)

\* C11: connect without a target fails with AttributeError (the
\* configuration error) and connect to a resource that does not exist fails
\* with FileNotFoundError (the not-found error); neither call loads a working
\* set or touches the resource.
C11_ConnectFailures ==
    [][(last'.op = "connect")
        => /\ ~last'.flag
                => /\ last'.err = "AttributeError"
                   /\ filename' = filename
                   /\ ws' = ws /\ file' = file
           /\ (last'.flag /\ file.kind = "missing")
                => /\ last'.err = "FileNotFoundError"
                   /\ ws' = ws /\ file' = file]_vars

\* C11 witness: a connect to a resource that does not exist has failed on an
\* engine that holds no working set.
C11_Witness ==
    /\ last.op = "connect" /\ last.flag
    /\ last.err = "FileNotFoundError"
    /\ file = Missing
    /\ ws.st # "list"

\* C12: a successful connect(target) records the target, leaves the resource
\* as it is and loads a working set whose encoding is the resource's content:
\* the records stored there, in their order.
C12_ConnectLoads ==
    [][(last'.op = "connect" /\ last'.err = "")
        => /\ last'.flag
           /\ filename' = Path
           /\ ws'.st = "list"
           /\ file' = file
           /\ ValidEncoding(file)
                => /\ Len(ws'.items) = Len(file.items)
                   /\ \A i \in 1..Len(file.items) : ToDict(ws'.items[i]) = file.items[i]]_vars

\* C12 witness: a connect has loaded two different records from the
\* resource.
C12_Witness ==
    /\ last.op = "connect" /\ last.err = ""
    /\ Connected
    /\ Len(ws.items) = 2
    /\ ws.items[1] # ws.items[2]
    /\ ValidEncoding(file)

\* C13: read() returns the collection stored in the resource, not the
\* working set, and changes neither; add_transaction, delete_transaction and
\* change_transaction leave the outcome of read() as it was, while
\* get_transactions() returns the modified working set.
C13_ReadIsFromResource ==
    [][/\ (last'.op = "read" /\ filename = Path /\ ValidEncoding(file))
            => /\ last'.err = ""
               /\ Len(last'.ret) = Len(file.items)
               /\ \A i \in 1..Len(file.items) : ToDict(last'.ret[i]) = file.items[i]
               /\ ws' = ws /\ file' = file /\ filename' = filename
       /\ (last'.op \in {"add_transaction", "delete_transaction", "change_transaction"})
            => /\ Read(filename', ws', file').ret = Read(filename, ws, file).ret
               /\ Read(filename', ws', file').err = Read(filename, ws, file).err
               /\ ws'.st = "list" => GetTransactions(filename', ws', file').ret = ws'.items]_vars

\* C13 witness: read() has returned a collection that differs from a
\* non-empty working set.
C13_Witness ==
    /\ last.op = "read" /\ last.err = ""
    /\ Connected
    /\ ws.items # <<>>
    /\ last.ret # <<>>
    /\ last.ret # ws.items

\* C14: disconnect() unsets the target and the working set, whatever unsaved
\* changes the working set held, and leaves the resource's content alone.
C14_Disconnect ==
    [][(last'.op = "disconnect")
        => /\ last'.err = ""
           /\ filename' = NoneStr
           /\ ws' = NoneWS
           /\ file' = file]_vars

\* C14 witness: the engine is disconnected and the resource still holds
\* records.
C14_Witness ==
    /\ last.op = "disconnect"
    /\ filename = NoneStr /\ ws = NoneWS
    /\ file.kind = "array" /\ file.items # <<>>

\* C15: get_transactions() never fails, in any engine state: it returns the
\* working set when one is loaded and the empty collection otherwise.
C15_GetAllNeverFails ==
    (last.op = "get_transactions")
        => /\ last.err = ""
           /\ last.ret = IF ws.st = "list" THEN ws.items ELSE <<>>

----------------------------------------------------------------------------
(* app/main.py: get_db, the scope the front end takes the engine from *)

\* db = JsonFileDatabase(); db.connect(filename=DB_FILENAME): made before
\* the try statement is entered
GetDbEnter(f, target) == Connect(Unset, Absent, f, target)

\* the ways a with-body is left
ExitKinds == {"return", "error", "early exit"}

GetDbExit_NoFinally(fn, w, f, kind) ==
    IF kind = "return" THEN Disconnect(fn, w, f)
    ELSE Outcome(fn, w, f, "", "", <<>>)

\* try: yield db / finally: db.disconnect(): the finally clause runs however
\* the body is left
GetDbExit(fn, w, f, kind) == Disconnect(fn, w, f)

\* the calls the front end makes on the engine inside a with-body
BodyCalls ==
    {Call("get_transactions", 0, FALSE, <<>>), Call("save", 0, FALSE, <<>>)}
    \cup {Call("get_transaction", id, FALSE, <<>>) : id \in Ids}
    \cup {Call("delete_transaction", id, FALSE, <<>>) : id \in Ids}
    \cup {Call("add_transaction", 0, FALSE, <<t>>) : t \in Pool}
    \cup {Call("change_transaction", id, FALSE, <<TxB>>) : id \in Ids}

BodyOutcome(call) ==
    CASE call.op = "get_transactions" -> GetTransactions(filename, ws, file)
      [] call.op = "save" -> Save(filename, ws, file)
      [] call.op = "get_transaction" -> GetTransaction(filename, ws, file, call.id)
      [] call.op = "delete_transaction" -> DeleteTransaction(filename, ws, file, call.id)
      [] call.op = "add_transaction" -> AddTransaction(filename, ws, file, call.input[1])
      [] call.op = "change_transaction" ->
            ChangeTransaction(filename, ws, file, call.id, call.input[1])

\* what the resource holds when the front end starts
StartDocs == ExternalDocs \cup {ArrayDoc(<<>>), Dump(<<TxA>>)}

\* DB_FILENAME is None until main() stores the command-line argument in it
InitGetDb ==
    /\ filename = Unset
    /\ ws = Absent
    /\ file \in StartDocs
    /\ last = NoCall
    /\ pc = "idle"
    /\ io \in [target : Targets, exit : {""}]

\* with get_db() as database: an error raised by connect leaves get_db
\* before its try statement
GetDbAcquire ==
    /\ pc \in {"idle", "closed"}
    /\ LET out == GetDbEnter(file, io.target)
       IN  /\ Step(Call("connect", 0, io.target # NoneStr, <<>>), out)
           /\ pc' = IF out.err = "" THEN "body" ELSE "raised"
    /\ io' = [io EXCEPT !.exit = ""]

\* one call of the body; an error it raises is on its way out of the body
GetDbBody ==
    /\ pc = "body"
    /\ \E call \in BodyCalls :
        /\ call.op = "add_transaction" => Len(ws.items) < MaxLen
        /\ LET out == BodyOutcome(call)
           IN  /\ Step(call, out)
               /\ pc' = IF out.err = "" THEN "body" ELSE "raising"
    /\ UNCHANGED io

\* the body is left: by its end, by return / break / exit(), or by the error
\* in flight
GetDbLeave ==
    /\ pc \in {"body", "raising"}
    /\ \E kind \in ExitKinds :
        /\ (pc = "raising") <=> (kind = "error")
        /\ Step(Call("exit", 0, FALSE, <<>>), GetDbExit(filename, ws, file, kind))
        /\ io' = [io EXCEPT !.exit = kind]
    /\ pc' = "closed"

NextGetDb == GetDbAcquire \/ GetDbBody \/ GetDbLeave

SpecGetDb == InitGetDb /\ [][NextGetDb]_vars

\* the engine is in the state disconnect leaves it in
Disconnected == filename = NoneStr /\ ws = NoneWS

\* C16 as stated: disconnect is performed on every exit path of a session
\* get_db started, a failure while acquiring the connection included.
C16_DisconnectOnEveryExit ==
    (pc \in {"closed", "raised"}) => Disconnected

\* C16 amended: once connect has succeeded, disconnect is performed however
\* the body is left (normal return, error raised inside, early exit); when
\* connect itself fails the error leaves get_db and no disconnect is performed.
C16_DisconnectOnBodyExit ==
    /\ (pc = "closed") => (Disconnected /\ io.exit \in ExitKinds /\ last.err = "")
    /\ (pc = "raised") => (last.op = "connect" /\ last.err # "" /\ ws # NoneWS)

\* C16 witness: a session whose body raised has been closed and the engine is
\* disconnected.
C16_Witness ==
    /\ pc = "closed"
    /\ io.exit = "error"
    /\ Disconnected

----------------------------------------------------------------------------
(* app/models.py: to_dict followed by from_dict, alone and through the file *)

Dates == {1, 2}
Amounts == {0, 100, 1500}
Descriptions == {NoneStr, "", "rent"}

\* the valid transactions: an id, a date, a member of the enumeration, an
\* amount, and a description that may be None
ValidTransactions ==
    {Transaction(id, date, type, amount, description) :
        id \in Ids, date \in Dates, type \in TransactionType,
        amount \in Amounts, description \in Descriptions}

\* the collection written: the transaction under test, then a second record
Written(t) == <<t, TxB>>

\* an engine connected to a file holding the empty array
InitRoundTrip ==
    /\ filename = Path
    /\ ws = List(<<>>)
    /\ file = ArrayDoc(<<>>)
    /\ last = NoCall
    /\ pc = "input"
    /\ io \in [t : ValidTransactions]

RT_ToDict ==
    /\ pc = "input"
    /\ pc' = "encoded"
    /\ io' = [t |-> io.t, record |-> ToDict(io.t)]
    /\ UNCHANGED <<filename, ws, file, last>>

RT_FromDict ==
    /\ pc = "encoded"
    /\ pc' = "decoded"
    /\ io' = [t |-> io.t, record |-> io.record, back |-> FromDict(io.record)]
    /\ UNCHANGED <<filename, ws, file, last>>

RT_Write ==
    /\ pc = "decoded"
    /\ pc' = "written"
    /\ Step(Call("write", 0, FALSE, Written(io.t)),
            Write(filename, ws, file, List(Written(io.t)), FALSE))
    /\ UNCHANGED io

RT_Read ==
    /\ pc = "written"
    /\ pc' = "reread"
    /\ Step(Call("read", 0, FALSE, <<>>), Read(filename, ws, file))
    /\ UNCHANGED io

NextRoundTrip == RT_ToDict \/ RT_FromDict \/ RT_Write \/ RT_Read

SpecRoundTrip == InitRoundTrip /\ [][NextRoundTrip]_vars

\* C17: from_dict(to_dict(t)) succeeds and equals t in all five fields, and a
\* collection written to the file and read back is the collection written,
\* record by record.
C17_RoundTrip ==
    /\ (pc \in {"decoded", "written", "reread"})
        => /\ io.back.err = ""
           /\ io.back.val.id = io.t.id
           /\ io.back.val.date = io.t.date
           /\ io.back.val.type = io.t.type
           /\ io.back.val.amount = io.t.amount
           /\ io.back.val.description = io.t.description
    /\ (pc = "reread")
        => /\ last.err = ""
           /\ Len(last.ret) = Len(Written(io.t))
           /\ \A i \in 1..Len(last.ret) : last.ret[i] = Written(io.t)[i]

\* C17 witness: a transaction without description has been encoded, decoded,
\* written and read back.
C17_Witness ==
    /\ pc = "reread"
    /\ io.t.description = NoneStr
    /\ io.t.type = UNDEFINED
    /\ last.op = "read" /\ last.err = ""
    /\ file = Dump(Written(io.t))

----------------------------------------------------------------------------
(* app/utils.py: calculate_expenses *)

Abs(x) == IF x < 0 THEN -x ELSE x

RECURSIVE Sum(_)
Sum(xs) == IF xs = <<>> THEN 0 ELSE Head(xs) + Sum(Tail(xs))

\* calculate_expenses counting the EXPENSE entries only against the incomes
CalculateExpenses_ExpenseOnly(transactions) ==
    Sum([i \in 1..Len(transactions) |->
            IF transactions[i].type = INCOME THEN Abs(transactions[i].amount)
            ELSE IF transactions[i].type = EXPENSE THEN -Abs(transactions[i].amount)
            ELSE 0])

\* calculate_expenses: float(sum([abs(amount) if type == INCOME else
\* -abs(amount) ...])); the amounts are integers, which float() keeps
CalculateExpenses(transactions) ==
    Sum([i \in 1..Len(transactions) |->
            IF transactions[i].type = INCOME THEN Abs(transactions[i].amount)
            ELSE -Abs(transactions[i].amount)])

\* the entries summed: every type with a negative, a zero and a positive
\* amount (the amount-edit view stores the number typed, sign included)
BalanceAmounts == {-200, 0, 1000}
BalanceEntries ==
    {Transaction(1, 1, type, amount, NoneStr) :
        type \in TransactionType, amount \in BalanceAmounts}

InitBalance ==
    /\ filename = Unset
    /\ ws = Absent
    /\ file = ArrayDoc(<<>>)
    /\ last = NoCall
    /\ pc = "input"
    /\ io \in [transactions : SeqsUpTo(BalanceEntries, MaxBalance)]

Calculate ==
    /\ pc = "input"
    /\ pc' = "done"
    /\ io' = [transactions |-> io.transactions,
              result |-> CalculateExpenses(io.transactions)]
    /\ UNCHANGED <<filename, ws, file, last>>

NextBalance == Calculate

SpecBalance == InitBalance /\ [][NextBalance]_vars

\* the sum of the amounts of the entries at the positions idx
RECURSIVE Total(_, _)
Total(transactions, idx) ==
    IF idx = {} THEN 0
    ELSE LET i == CHOOSE j \in idx : TRUE
         IN  transactions[i].amount + Total(transactions, idx \ {i})

IncomeAt(transactions) ==
    {i \in 1..Len(transactions) : transactions[i].type = INCOME}
OtherAt(transactions) ==
    {i \in 1..Len(transactions) : transactions[i].type # INCOME}

\* the entries with their amounts replaced by their magnitudes
Magnitudes(transactions) ==
    [i \in 1..Len(transactions) |->
        [transactions[i] EXCEPT !.amount = Abs(transactions[i].amount)]]

EngineUntouched ==
    filename = Unset /\ ws = Absent /\ file = ArrayDoc(<<>>) /\ last = NoCall

----------------------------------------------------------------------------
(* app/models.py: Transaction.clone *)

\* type=None, where a member of the enumeration is expected
NoType == 0

\* the amount argument: None, or a number (0 when the argument is omitted)
NoAmount == [none |-> TRUE, v |-> 0]
Amount(v) == [none |-> FALSE, v |-> v]

\* clone overriding with every argument that is not None
Clone_NoneCheck(self, type, amount, description, date) ==
    [self |-> self,
     result |-> Transaction(self.id,
                            IF date # NoDate THEN date ELSE self.date,
                            IF type # NoType THEN type ELSE self.type,
                            IF ~amount.none THEN amount.v ELSE self.amount,
                            IF description # NoneStr THEN description
                            ELSE self.description)]

\* Transaction.clone: `x or self.x` takes self.x when x is None, 0 or "";
\* a new Transaction is built and self is left as it is
Clone(self, type, amount, description, date) ==
    [self |-> self,
     result |-> Transaction(self.id,
                            IF date # NoDate THEN date ELSE self.date,
                            IF type # NoType THEN type ELSE self.type,
                            IF ~amount.none /\ amount.v # 0 THEN amount.v
                            ELSE self.amount,
                            IF description \notin {NoneStr, ""} THEN description
                            ELSE self.description)]

CloneTypes == {NoType} \cup TransactionType
CloneAmounts == {NoAmount, Amount(0), Amount(500), Amount(-5)}
CloneDescriptions == {NoneStr, "", "food"}
CloneDates == {NoDate, 3}

InitClone ==
    /\ filename = Unset
    /\ ws = Absent
    /\ file = ArrayDoc(<<>>)
    /\ last = NoCall
    /\ pc = "input"
    /\ io \in [self : {TxA, TxB}, type : CloneTypes, amount : CloneAmounts,
               description : CloneDescriptions, date : CloneDates]

DoClone ==
    /\ pc = "input"
    /\ pc' = "done"
    /\ LET out == Clone(io.self, io.type, io.amount, io.description, io.date)
       IN  io' = [self |-> out.self, type |-> io.type, amount |-> io.amount,
                  description |-> io.description, date |-> io.date,
                  before |-> io.self, result |-> out.result]
    /\ UNCHANGED <<filename, ws, file, last>>

NextClone == DoClone

SpecClone == InitClone /\ [][NextClone]_vars

\* C19: clone returns a record with the original's id in which each field is
\* the supplied value when a truthy value was supplied and the original's
\* value otherwise (None, amount 0 and the empty description do not
\* override); the original record is not modified.
C19_Clone ==
    (pc = "done")
        => /\ io.result.id = io.before.id
           /\ io.result.type =
                IF io.type \in TransactionType THEN io.type ELSE io.before.type
           /\ (io.amount.none \/ io.amount.v = 0)
                => io.result.amount = io.before.amount
           /\ (~io.amount.none /\ io.amount.v # 0)
                => io.result.amount = io.amount.v
           /\ (io.description \in {NoneStr, ""})
                => io.result.description = io.before.description
           /\ (io.description \notin {NoneStr, ""})
                => io.result.description = io.description
           /\ io.result.date = IF io.date = NoDate THEN io.before.date ELSE io.date
           /\ io.self = io.before

\* C19 witness: a clone asked for with a new type, amount 0 and an empty
\* description took the new type and kept the original's amount and
\* description.
C19_Witness ==
    /\ pc = "done"
    /\ io.before = TxB
    /\ io.type = INCOME /\ io.amount = Amount(0) /\ io.description = ""
    /\ io.result.type = INCOME
    /\ io.result.amount = TxB.amount
    /\ io.result.description = TxB.description
    /\ io.self = TxB

\* C20: when write or save fails because a record cannot be serialized, the
\* resource holds the content it had before the call.
C20_FailedWriteKeepsContent ==
    [][(last'.op \in {"write", "save"} /\ last'.err = "AttributeError"
            /\ last'.msg = "isoformat")
        => file' = file]_vars

----------------------------------------------------------------------------
(* app/main.py: the add view, its confirmation, and the amount-edit view *)

\* Transaction.create: uuid4() and now() are the id and instant the call is
\* given by its environment; `date or now`
Create(id, now, type, amount, description, date) ==
    Transaction(id, IF date # NoDate THEN date ELSE now, type, amount, description)

\* transaction_add_view: what it hands to add_transaction_check_view, which
\* prints it; `value` is the integer typed, `date` the date typed or NoDate
\* for an empty line
AddView(value, date, description, now) ==
    [type |-> IF value < 0 THEN EXPENSE ELSE INCOME,
     amount |-> Abs(value),
     description |-> description,
     date |-> IF date # NoDate THEN date ELSE now]

\* a with-body of two or three engine calls run inside get_db: the first
\* error ends the body, and the finally clause disconnects
Scope(c, body) ==
    IF c.err # "" THEN c
    ELSE LET x == GetDbExit(body.filename, body.ws, body.file,
                            IF body.err = "" THEN "return" ELSE "error")
         IN  Outcome(x.filename, x.ws, x.file, body.err, body.msg, body.ret)

\* add_transaction_check_view after the answer "y": the record is created
\* from the type, the amount and the description; expense_date is not passed
AddConfirmed(f, shown, id, now) ==
    LET c == GetDbEnter(f, Path)
        t == Create(id, now, shown.type, shown.amount, shown.description, NoDate)
        a == AddTransaction(c.filename, c.ws, c.file, t)
        s == Save(a.filename, a.ws, a.file)
    IN  Scope(c, IF a.err # "" THEN a ELSE s)

\* transaction_edit_amount_view: the clone takes the integer typed as it is
EditAmount(f, transaction, value) ==
    LET c == GetDbEnter(f, Path)
        n == Clone(transaction, NoType, Amount(value), NoneStr, NoDate).result
        ch == ChangeTransaction(c.filename, c.ws, c.file, transaction.id, n)
        s == Save(ch.filename, ch.ws, ch.file)
        g == GetTransaction(s.filename, s.ws, s.file, transaction.id)
    IN  Scope(c, IF ch.err # "" THEN ch ELSE IF s.err # "" THEN s ELSE g)

\* what the user types
TypedValues == {-50, 0, 70}
TypedDates == {NoDate, 1}
TypedDescriptions == {"", "rent"}

\* uuid4(): an id no stored record carries
FreshId(items) == Len(items) + 1

NothingShown == [type |-> UNDEFINED, amount |-> 0, description |-> "", date |-> NoDate]

\* main() has stored the path in DB_FILENAME; the file holds an array
InitFrontEnd ==
    /\ filename = Unset
    /\ ws = Absent
    /\ file \in {ArrayDoc(<<>>), Dump(<<TxA>>)}
    /\ last = NoCall
    /\ pc = "menu"
    /\ io = [now |-> MaxClock - 1, shown |-> NothingShown]

\* time passes while the user reads and types
Tick ==
    /\ io.now < MaxClock
    /\ io' = [io EXCEPT !.now = io.now + 1]
    /\ UNCHANGED <<filename, ws, file, last, pc>>

\* transaction_add_view: the amount 0 is asked for again
AddEnter ==
    /\ pc = "menu"
    /\ file.kind = "array" /\ Len(file.items) < MaxRecords
    /\ \E value \in TypedValues, date \in TypedDates, description \in TypedDescriptions :
        /\ value # 0
        /\ io' = [io EXCEPT !.shown = AddView(value, date, description, io.now)]
    /\ pc' = "confirm"
    /\ UNCHANGED <<filename, ws, file, last>>

\* add_transaction_check_view
AddConfirm ==
    /\ pc = "confirm"
    /\ \E answer \in {"y", "n"} :
        Step(Call("add_confirm", 0, answer = "y", <<>>),
             IF answer = "y"
             THEN AddConfirmed(file, io.shown, FreshId(file.items), io.now)
             ELSE Outcome(filename, ws, file, "", "", <<>>))
    /\ pc' = "menu"
    /\ UNCHANGED io

\* transaction_edit_amount_view on a record of the list shown; the amount 0
\* is asked for again
EditAmountView ==
    /\ pc = "menu"
    /\ file.kind = "array"
    /\ \E i \in 1..Len(file.items), value \in TypedValues :
        /\ value # 0
        /\ Step(Call("edit_amount", i, value < 0, <<>>),
                EditAmount(file, FromDict(file.items[i]).val, value))
    /\ UNCHANGED <<pc, io>>

NextFrontEnd == Tick \/ AddEnter \/ AddConfirm \/ EditAmountView

SpecFrontEnd == InitFrontEnd /\ [][NextFrontEnd]_vars

\* the records the file holds
Persisted == [i \in 1..Len(file.items) |-> FromDict(file.items[i]).val]

\* C22: every record persisted through the add and amount-edit views has a
\* non-negative amount, and after a negative number was typed in the
\* amount-edit view the record is an expense with the absolute value.
C22_StoredAmountNonNegative ==
    /\ \A i \in 1..Len(Persisted) : Persisted[i].amount >= 0
    /\ (last.op = "edit_amount" /\ last.flag /\ last.err = "")
        => last.ret[1].type = EXPENSE

\* C26: the record stored after the answer "y" carries the type, amount,
\* description and date shown on the confirmation screen.
C26_StoredIsShown ==
    (last.op = "add_confirm" /\ last.flag /\ last.err = "" /\ pc = "menu")
        => /\ Persisted # <<>>
           /\ Persisted[Len(Persisted)].type = io.shown.type
           /\ Persisted[Len(Persisted)].amount = io.shown.amount
           /\ Persisted[Len(Persisted)].description = io.shown.description
           /\ Persisted[Len(Persisted)].date = io.shown.date

\* C21: when delete_transaction or change_transaction fails with the error
\* of get_transaction (no record, or several records, with the id), the
\* working set and the resource are as before the call; a failed
\* change_transaction has not added its replacement.
C21_FailedByIdKeepsState ==
    [][(last'.op \in {"delete_transaction", "change_transaction"}
            /\ last'.err = "ValueError")
        => /\ last'.msg \in {"not found", "Multiple transactions found"}
           /\ filename' = filename
           /\ ws' = ws
           /\ file' = file]_vars

\* C21 witness: change_transaction has failed on an id two records of the
\* working set carry.
C21_Witness ==
    /\ last.op = "change_transaction"
    /\ last.err = "ValueError"
    /\ ws.st = "list"
    /\ Count(ws.items, last.id) = 2
    /\ Len(ws.items) = 2

----------------------------------------------------------------------------
(* app/db/jsonfile.py: one engine followed through connect and disconnect; *)
(* pc tells whether it is connected, or disconnected after having been     *)

InitWindow ==
    /\ filename = Unset
    /\ ws = Absent
    /\ file = ArrayDoc(<<>>)
    /\ last = NoCall
    /\ pc = "fresh"
    /\ io = <<>>

\* connect: the engine is connected once the call has returned
WindowConnect ==
    /\ \E target \in Targets :
        LET out == Connect(filename, ws, file, target)
        IN  /\ Step(Call("connect", 0, target # NoneStr, <<>>), out)
            /\ pc' = IF out.err = "" THEN "connected" ELSE pc
    /\ UNCHANGED io

WindowDisconnect ==
    /\ Step(Call("disconnect", 0, FALSE, <<>>), Disconnect(filename, ws, file))
    /\ pc' = IF pc = "connected" THEN "disconnected" ELSE pc
    /\ UNCHANGED io

\* the storage operations of the engine
StorageCall ==
    \/ DoRead
    \/ DoWrite
    \/ DoSave
    \/ DoClear
    \/ DoAddTransaction
    \/ DoDeleteTransaction
    \/ DoChangeTransaction

NextWindow == WindowConnect \/ WindowDisconnect \/ StorageCall \/ ExternalWrite

SpecWindow == InitWindow /\ [][NextWindow]_vars

StorageOps ==
    {"read", "write", "save", "clear", "add_transaction", "delete_transaction",
     "change_transaction"}

----------------------------------------------------------------------------
(* app/db/jsonfile.py: two engines, in two processes, on the same file.    *)
(* Session A is the engine of filename / ws / last; session B's engine is  *)
(* held in io; pc names the session that made the last call.               *)

Sessions == {"A", "B"}

\* the engine of a session
Engine(s) ==
    IF s = "A" THEN [filename |-> filename, ws |-> ws, last |-> last]
    ELSE io

InitSessions ==
    /\ filename = Unset
    /\ ws = Absent
    /\ file = ArrayDoc(<<>>)
    /\ last = NoCall
    /\ pc = "A"
    /\ io = [filename |-> Unset, ws |-> Absent, last |-> NoCall]

\* a call of session s takes effect on its engine and on the shared file
SessionStep(s, call, out) ==
    /\ pc' = s
    /\ IF s = "A"
       THEN Step(call, out) /\ UNCHANGED io
       ELSE /\ file' = out.file
            /\ io' = [filename |-> out.filename, ws |-> out.ws,
                      last |-> [op |-> call.op, id |-> call.id, flag |-> call.flag,
                                input |-> call.input, err |-> out.err,
                                msg |-> out.msg, ret |-> out.ret]]
            /\ UNCHANGED <<filename, ws, last>>

SessionConnect(s) ==
    SessionStep(s, Call("connect", 0, TRUE, <<>>),
                Connect(Engine(s).filename, Engine(s).ws, file, Path))

SessionAdd(s) ==
    \E t \in {TxA, TxB} :
        /\ Len(Engine(s).ws.items) < MaxRecords
        /\ SessionStep(s, Call("add_transaction", 0, FALSE, <<t>>),
                       AddTransaction(Engine(s).filename, Engine(s).ws, file, t))

SessionSave(s) ==
    SessionStep(s, Call("save", 0, FALSE, <<>>),
                Save(Engine(s).filename, Engine(s).ws, file))

SessionDisconnect(s) ==
    SessionStep(s, Call("disconnect", 0, FALSE, <<>>),
                Disconnect(Engine(s).filename, Engine(s).ws, file))

NextSessions ==
    \E s \in Sessions :
        \/ SessionConnect(s)
        \/ SessionAdd(s)
        \/ SessionSave(s)
        \/ SessionDisconnect(s)

SpecSessions == InitSessions /\ [][NextSessions]_vars

\* the records of a sequence
Range(items) == {items[i] : i \in 1..Len(items)}

\* C23: when session B saves, the file becomes B's working set and nothing
\* else: a record session A has saved since B loaded its working set, which
\* B therefore does not hold, is no longer in the persisted collection.
C23_LaterSaveOverwrites ==
    [][(pc' = "B" /\ io'.last.op = "save" /\ io'.last.err = "")
        => /\ file' = Dump(io.ws.items)
           /\ \A i \in 1..Len(file.items) :
                (FromDict(file.items[i]).val \notin Range(io.ws.items))
                    => \A j \in 1..Len(file'.items) :
                            file'.items[j] # file.items[i]]_vars

\* C23 witness: the lost update.  The last call of A was a save that
\* succeeded, the last call of B was a save that succeeded, and a record of
\* A's working set is not in the file, which holds B's working set.
C23_Witness ==
    /\ pc = "B"
    /\ last.op = "save" /\ last.err = ""
    /\ io.last.op = "save" /\ io.last.err = ""
    /\ file = Dump(io.ws.items)
    /\ \E r \in Range(ws.items) :
            \A j \in 1..Len(file.items) : file.items[j] # ToDict(r)

\* C24: after disconnect() and until the next successful connect, no storage
\* operation (read, write, save, clear, add, delete, change) changes the
\* content of the resource the engine was connected to.
C24_NoWriteWhileDisconnected ==
    [][(pc = "disconnected" /\ last'.op \in StorageOps) => file' = file]_vars

\* C25: a connect that fails, whatever the failure (no target, no such
\* resource, malformed content), leaves the engine's filename and working set
\* as they were before the call.
C25_FailedConnectKeepsEngine ==
    [][(last'.op = "connect" /\ last'.err # "")
        => /\ filename' = filename
           /\ ws' = ws]_vars

====
